---- MODULE Spec2Model ----
(***************************************************************************)
(* Order lifecycle of the agency backend (src/src/models/order), with the  *)
(* dashboard statistics, the home banners, the admin role handlers and the *)
(* database connection, each in a specification of its own.                *)
(*                                                                         *)
(* The store is the MongoDB collection "orders": a map from _id to the     *)
(* order document.  Every controller of order.controller.ts is one action  *)
(* that reads the store, runs the guards of the code in their order and    *)
(* writes back.  The handlers that race are also given as the steps        *)
(* between their awaits (the Create* steps).                               *)
(*                                                                         *)
(* Representation                                                          *)
(*   - an optional JSON value is a sequence: <<>> absent, <<v>> present;   *)
(*   - a string whose characters matter (order number sequence, e-mail,    *)
(*     plan price) is a sequence of characters; digits are 0..9;           *)
(*   - amounts of money are integers in tenths (49 is 490), NaN is NaN;    *)
(*   - a timestamp is the calendar year of the clock; createdAt, which the  *)
(*     dashboard groups by month, is the year and the month;               *)
(*   - fields of the document that no guard reads and no claim names       *)
(*     (notes, address, currency, method, reason, cancelledAt, updatedAt)  *)
(*     are left out;                                                       *)
(*   - the storage driver does not fail once connected: the catch blocks   *)
(*     (500) are taken only where the handler itself throws.               *)
(***************************************************************************)
EXTENDS Integers, Sequences, FiniteSets, TLC

\* ------------------------------------------------------------------ bounds
\* orders ever inserted in the lifecycle specification
MaxOrders == 1
\* orders ever inserted in the numbering specification
MaxNumbered == 3
\* the clock starts in FirstYear and runs for YearSpan more years
FirstYear == 2025
YearSpan == 1
\* sequence number of the order a seeded store starts with
SeedSeq == 9999
\* concurrent requests in flight
MaxProcs == 2
\* orders ever inserted in the race specification
MaxRaced == 3
\* orders ever inserted in the amendment specification
MaxAmended == 2
\* orders ever inserted in the intake specification
MaxIntake == 2
\* orders ever inserted in the read specification
MaxRead == 2
\* orders ever inserted in the interleaving specification
MaxInterleaved == 1
\* banners ever inserted
MaxBanners == 2
\* orders and banners ever inserted in the administration specification
MaxAdmin == 2
\* orders ever inserted in the dashboard specification
MaxDash == 1
\* months the clock of the dashboard specification advances
MaxMonths == 2
\* orders ever inserted while a dashboard computation is in progress
MaxSnap == 1

\* ------------------------------------------------------- program constants
\* String(nextNumber).padStart(4, '0')
PadWidth == 4

VARIABLES
    orders,     \* the "orders" collection: _id -> document
    nextId,     \* the next ObjectId insertOne hands out
    year,       \* new Date().getFullYear()
    resp,       \* the last response sent: handler, HTTP status, message, _id
    issued,     \* every order number createOrder ever stored (history)
    pc,         \* per request in flight: the await it is parked at
    loc,        \* per request in flight: the locals of its handler
    stale,      \* per request in flight: the store changed since its last read
    date,       \* new Date(): the month and the day of the month of the clock
    stats,      \* the getDashboardStats request in flight: its await, its locals
    banners,    \* the "home_banners" collection: _id -> document
    accounts,   \* the identity provider's admin claims and the "users" collection
    conn        \* the module state of the database connection and of its middleware

vars == <<orders, nextId, year, resp, issued, pc, loc, stale,
          date, stats, banners, accounts, conn>>

\* what the order handlers leave alone
sideVars == <<date, stats, banners, accounts, conn>>

Procs == 1 .. MaxProcs
LastYear == FirstYear + YearSpan

\* ------------------------------------------------------- strings, numbers
Digit == 0 .. 9
NaN == -1000000

RECURSIVE ToStr(_)
\* String(n) for a non-negative integer
ToStr(n) == IF n < 10 THEN <<n>> ELSE ToStr(n \div 10) \o <<n % 10>>

RECURSIVE PadStart(_, _)
\* s.padStart(w, '0')
PadStart(s, w) == IF Len(s) >= w THEN s ELSE PadStart(<<0>> \o s, w)

RECURSIVE ParseInt(_)
\* parseInt(s) of a string of digits
ParseInt(s) ==
    IF s = <<>> THEN 0
    ELSE ParseInt(SubSeq(s, 1, Len(s) - 1)) * 10 + s[Len(s)]

\* a < b in the binary (code point) order MongoDB sorts strings by
StrLess(a, b) ==
    \E k \in 1 .. (Len(b)) :
        /\ \A j \in 1 .. (k - 1) : j <= Len(a) /\ a[j] = b[j]
        /\ \/ k = Len(a) + 1
           \/ k <= Len(a) /\ a[k] < b[k]

\* `ORD-${year}-${seq}` kept as its two variable parts
OrderNumber(y, s) == [year |-> y, seq |-> s]

\* find({orderNumber: /^ORD-<y>-/}).sort({orderNumber: -1}).limit(1)
LatestOrder(ords, y) ==
    LET matching == {i \in DOMAIN ords : ords[i].orderNumber.year = y}
        top == {i \in matching :
                  \A j \in matching :
                      ~ StrLess(ords[i].orderNumber.seq, ords[j].orderNumber.seq)}
    IN  IF top = {} THEN <<>> ELSE <<ords[CHOOSE i \in top : TRUE]>>

\* an allocator that also counts the numbers handed to requests in flight
generateOrderNumberReserving(ords, y) ==
    LET latestOrder == LatestOrder(ords, y)
        reserved == Cardinality({p \in Procs : pc[p] = "insert"})
        nextNumber == IF Len(latestOrder) > 0
                      THEN ParseInt(latestOrder[1].orderNumber.seq) + 1 + reserved
                      ELSE 1 + reserved
    IN  OrderNumber(y, PadStart(ToStr(nextNumber), PadWidth))

generateOrderNumber(ords, y) ==
    LET latestOrder == LatestOrder(ords, y)
        nextNumber == IF Len(latestOrder) > 0
                      THEN ParseInt(latestOrder[1].orderNumber.seq) + 1
                      ELSE 1
    IN  OrderNumber(y, PadStart(ToStr(nextNumber), PadWidth))

\* ------------------------------------------------------------ createOrder
\* characters of the strings whose content the code inspects
DigitChars == {"0", "1", "2", "3", "4", "5", "6", "7", "8", "9"}

DigitVal(c) ==
    CASE c = "0" -> 0 [] c = "1" -> 1 [] c = "2" -> 2 [] c = "3" -> 3
      [] c = "4" -> 4 [] c = "5" -> 5 [] c = "6" -> 6 [] c = "7" -> 7
      [] c = "8" -> 8 [] c = "9" -> 9

\* s.replace(/[^0-9.]/g, '')
StripPrice(s) == SelectSeq(s, LAMBDA c : c \in DigitChars \/ c = ".")

\* the leading run of digits of s
RECURSIVE DigitRun(_)
DigitRun(s) ==
    IF s = <<>> \/ s[1] \notin DigitChars THEN <<>>
    ELSE <<s[1]>> \o DigitRun(Tail(s))

RECURSIVE DigitsVal(_)
DigitsVal(s) ==
    IF s = <<>> THEN 0
    ELSE DigitsVal(SubSeq(s, 1, Len(s) - 1)) * 10 + DigitVal(s[Len(s)])

\* parseFloat(s) of a string of digits and dots, in tenths; the requests of
\* this model carry at most one fractional digit
ParseFloat(s) ==
    LET ip == DigitRun(s)
        rest == SubSeq(s, Len(ip) + 1, Len(s))
        fp == IF rest # <<>> /\ rest[1] = "." THEN DigitRun(Tail(rest)) ELSE <<>>
    IN  IF ip = <<>> /\ fp = <<>> THEN NaN
        ELSE DigitsVal(ip) * 10 + (IF fp = <<>> THEN 0 ELSE DigitVal(fp[1]))

\* JavaScript truthiness of a number
TruthyNum(n) == n # 0 /\ n # NaN

\* x || d for an optional number x
NumOr(x, d) == IF x # <<>> /\ TruthyNum(x[1]) THEN x[1] ELSE d

\* price?.toString().replace(/[^0-9.]/g, '') || '0', then parseFloat
PriceOf(price) ==
    LET t == IF price = <<>> THEN <<>> ELSE StripPrice(price[1])
    IN  ParseFloat(IF t = <<>> THEN <<"0">> ELSE t)

\* /^[^\s@]+@[^\s@]+\.[^\s@]+$/ .test(e)
EmailOk(e) ==
    /\ \A k \in 1 .. Len(e) : e[k] # " "
    /\ \E i \in 2 .. Len(e) :
        /\ e[i] = "@"
        /\ \A k \in 1 .. Len(e) : e[k] = "@" => k = i
        /\ \E j \in (i + 2) .. (Len(e) - 1) : e[j] = "."

\* lines 45-88: the pricing and the plan the request resolves to
ResolvePricing(req) ==
    IF req.pricing # <<>> THEN
        [found |-> TRUE,
         pricingData |->
            [subtotal |-> NumOr(req.pricing[1].subtotal,
                                NumOr(req.pricing[1].grandTotal, 0)),
             grandTotal |-> NumOr(req.pricing[1].grandTotal, 0)],
         planData |-> <<>>]
    ELSE IF req.plan # <<>> THEN
        [found |-> TRUE,
         pricingData |-> [subtotal |-> PriceOf(req.plan[1].price),
                          grandTotal |-> PriceOf(req.plan[1].price)],
         planData |-> <<[name |-> req.plan[1].name]>>]
    ELSE IF req.planPrice # <<>> /\ req.planPrice[1] # <<>> THEN
        [found |-> TRUE,
         pricingData |-> [subtotal |-> PriceOf(req.planPrice),
                          grandTotal |-> PriceOf(req.planPrice)],
         planData |-> <<[name |-> req.planName]>>]
    ELSE [found |-> FALSE,
          pricingData |-> [subtotal |-> 0, grandTotal |-> 0],
          planData |-> <<>>]

\* lines 98-116: the line items, synthesized from the plan if none came
ResolveItems(req) ==
    LET r == ResolvePricing(req)
    IN  IF req.items # <<>> THEN req.items
        ELSE IF r.planData # <<>> THEN
            <<[name |-> IF r.planData[1].name # "" THEN r.planData[1].name
                        ELSE IF req.planName # "" THEN req.planName
                        ELSE "Service Plan",
               quantity |-> 1,
               unitPrice |-> r.pricingData.grandTotal,
               totalPrice |-> r.pricingData.grandTotal]>>
        ELSE <<>>

ItemOk(item) ==
    item.name # "" /\ TruthyNum(item.quantity) /\ TruthyNum(item.unitPrice)
        /\ TruthyNum(item.totalPrice)

\* payment?.transactionId || transactionId
FinalTransactionId(req) ==
    IF req.payment # <<>> /\ req.payment[1].transactionId # ""
    THEN req.payment[1].transactionId
    ELSE req.transactionId

\* the checks with the grand total tested for presence only
ValidateCreateTruthyTotal(req, ords) ==
    LET r == ResolvePricing(req)
        items == ResolveItems(req)
        txn == FinalTransactionId(req)
    IN  IF \/ req.customer = <<>>
           \/ req.customer[1].name = ""
           \/ req.customer[1].email = <<>>
           \/ req.customer[1].phone = ""
        THEN "customer"
        ELSE IF ~ r.found THEN "pricing"
        ELSE IF ~ TruthyNum(r.pricingData.grandTotal) THEN "grandTotal"
        ELSE IF items = <<>> THEN "items"
        ELSE IF ~ EmailOk(req.customer[1].email) THEN "email"
        ELSE IF \E k \in 1 .. Len(items) : ~ ItemOk(items[k]) THEN "item"
        ELSE IF txn # "" /\ \E i \in DOMAIN ords : ords[i].payment.transactionId = txn
        THEN "transactionId"
        ELSE ""

\* the checks with the items validated before the e-mail
ValidateCreateItemsFirst(req, ords) ==
    LET r == ResolvePricing(req)
        items == ResolveItems(req)
        txn == FinalTransactionId(req)
    IN  IF \/ req.customer = <<>>
           \/ req.customer[1].name = ""
           \/ req.customer[1].email = <<>>
           \/ req.customer[1].phone = ""
        THEN "customer"
        ELSE IF ~ r.found THEN "pricing"
        ELSE IF ~ TruthyNum(r.pricingData.grandTotal) \/ r.pricingData.grandTotal <= 0
        THEN "grandTotal"
        ELSE IF items = <<>> THEN "items"
        ELSE IF \E k \in 1 .. Len(items) : ~ ItemOk(items[k]) THEN "item"
        ELSE IF ~ EmailOk(req.customer[1].email) THEN "email"
        ELSE IF txn # "" /\ \E i \in DOMAIN ords : ords[i].payment.transactionId = txn
        THEN "transactionId"
        ELSE ""

\* lines 37-150: the message of the first check that fails, "" if none does
ValidateCreate(req, ords) ==
    LET r == ResolvePricing(req)
        items == ResolveItems(req)
        txn == FinalTransactionId(req)
    IN  IF \/ req.customer = <<>>
           \/ req.customer[1].name = ""
           \/ req.customer[1].email = <<>>
           \/ req.customer[1].phone = ""
        THEN "customer"
        ELSE IF ~ r.found THEN "pricing"
        ELSE IF ~ TruthyNum(r.pricingData.grandTotal) \/ r.pricingData.grandTotal <= 0
        THEN "grandTotal"
        ELSE IF items = <<>> THEN "items"
        ELSE IF ~ EmailOk(req.customer[1].email) THEN "email"
        ELSE IF \E k \in 1 .. Len(items) : ~ ItemOk(items[k]) THEN "item"
        ELSE IF txn # "" /\ \E i \in DOMAIN ords : ords[i].payment.transactionId = txn
        THEN "transactionId"
        ELSE ""

\* the document spread from the body: orderStatus of the request wins
NewOrderFromBody(req, orderNumber, now) ==
    [orderNumber |-> orderNumber,
     orderStatus |-> IF req.orderStatus # "" THEN req.orderStatus ELSE "pending",
     customer |-> req.customer[1],
     items |-> ResolveItems(req),
     pricing |-> ResolvePricing(req).pricingData,
     payment |->
        [status |-> IF req.payment # <<>> /\ req.payment[1].status # ""
                    THEN req.payment[1].status ELSE "pending",
         transactionId |-> FinalTransactionId(req),
         paidAt |-> <<>>],
     cancellation |-> [isCancelled |-> FALSE, cancelledBy |-> <<>>],
     createdAt |-> now]

\* lines 155-185: the document createOrder inserts
NewOrder(req, orderNumber, now) ==
    [orderNumber |-> orderNumber,
     orderStatus |-> "pending",
     customer |-> req.customer[1],
     items |-> ResolveItems(req),
     pricing |-> ResolvePricing(req).pricingData,
     payment |->
        [status |-> IF req.payment # <<>> /\ req.payment[1].status # ""
                    THEN req.payment[1].status ELSE "pending",
         transactionId |-> FinalTransactionId(req),
         paidAt |-> <<>>],
     cancellation |-> [isCancelled |-> FALSE, cancelledBy |-> <<>>],
     createdAt |-> now]

\* data is the order a read answers with; the writers' copies of the order
\* they stored are left out
Response(op, code, msg, id) ==
    [op |-> op, code |-> code, msg |-> msg, id |-> id, data |-> <<>>]

\* insertOne(order)
Insert(ords, id, order) ==
    [i \in DOMAIN ords \cup {id} |-> IF i = id THEN order ELSE ords[i]]

\* new Date() as far as createdAt is read: the year and the month
Now == [year |-> year, month |-> date.month]

\* POST /orders, run without another request in between
createOrder(req) ==
    LET err == ValidateCreate(req, orders)
        orderNumber == generateOrderNumber(orders, year)
    IN  /\ IF err # ""
           THEN /\ resp' = Response("createOrder", 400, err, 0)
                /\ UNCHANGED <<orders, nextId, issued>>
           ELSE /\ orders' = Insert(orders, nextId, NewOrder(req, orderNumber, Now))
                /\ nextId' = nextId + 1
                /\ issued' = issued \cup {orderNumber}
                /\ resp' = Response("createOrder", 201, "", nextId)
        /\ UNCHANGED <<year, pc, loc, stale>>
        /\ UNCHANGED sideVars

\* ObjectId.isValid(id): the ids of this model are the naturals
ValidId(id) == id >= 0

\* DELETE /orders/:id
deleteOrder(id) ==
    /\ IF ~ ValidId(id)
       THEN /\ resp' = Response("deleteOrder", 400, "id", id)
            /\ UNCHANGED orders
       ELSE IF id \in DOMAIN orders
       THEN /\ orders' = [i \in DOMAIN orders \ {id} |-> orders[i]]
            /\ resp' = Response("deleteOrder", 200, "", id)
       ELSE /\ resp' = Response("deleteOrder", 404, "not found", id)
            /\ UNCHANGED orders
    /\ UNCHANGED <<nextId, year, issued, pc, loc>>
    /\ UNCHANGED sideVars
    /\ stale' = [p \in Procs |-> pc[p] # "idle"]

\* the calendar year turns
Tick ==
    /\ year < LastYear
    /\ year' = year + 1
    /\ UNCHANGED <<orders, nextId, resp, issued, pc, loc, stale>>
    /\ UNCHANGED sideVars

\* ---------------------------------------------- the other order handlers
validStatuses == {"pending", "confirmed", "processing", "completed", "cancelled"}

validPaymentStatuses == {"pending", "paid", "failed", "refunded"}

\* what a guard chain ends in: the HTTP status and the message
Outcome(code, msg) == [code |-> code, msg |-> msg]

\* updateOne({_id: id}, {$set: ...}) with the document the $set yields
SetOrder(ords, id, order) ==
    IF id \in DOMAIN ords THEN [ords EXCEPT ![id] = order] ELSE ords

\* the guards of updateOrderStatus, in the order of the code
StatusCheck(ords, id, orderStatus) ==
    IF ~ ValidId(id) THEN Outcome(400, "id")
    ELSE IF orderStatus = "" THEN Outcome(400, "required")
    ELSE IF orderStatus \notin validStatuses THEN Outcome(400, "invalid")
    ELSE IF id \notin DOMAIN ords THEN Outcome(404, "not found")
    ELSE IF ords[id].cancellation.isCancelled /\ orderStatus # "cancelled"
    THEN Outcome(400, "cancelled")
    ELSE Outcome(200, "")

\* PATCH /orders/:id/status
updateOrderStatus(id, orderStatus) ==
    LET c == StatusCheck(orders, id, orderStatus)
    IN  /\ resp' = Response("updateOrderStatus", c.code, c.msg, id)
        /\ IF c.code = 200
           THEN orders' = SetOrder(orders, id,
                              [orders[id] EXCEPT !.orderStatus = orderStatus])
           ELSE UNCHANGED orders
        /\ UNCHANGED <<nextId, year, issued, pc, loc, stale>>
        /\ UNCHANGED sideVars

\* updatePaymentStatus refusing orders that are completed or cancelled
PaymentCheckOpenOnly(ords, id, paymentStatus) ==
    IF ~ ValidId(id) THEN Outcome(400, "id")
    ELSE IF paymentStatus = "" THEN Outcome(400, "required")
    ELSE IF paymentStatus \notin validPaymentStatuses THEN Outcome(400, "invalid")
    ELSE IF id \notin DOMAIN ords THEN Outcome(404, "not found")
    ELSE IF ords[id].orderStatus \in {"completed", "cancelled"}
    THEN Outcome(400, "terminal")
    ELSE Outcome(200, "")

\* the guards of updatePaymentStatus
PaymentCheck(ords, id, paymentStatus) ==
    IF ~ ValidId(id) THEN Outcome(400, "id")
    ELSE IF paymentStatus = "" THEN Outcome(400, "required")
    ELSE IF paymentStatus \notin validPaymentStatuses THEN Outcome(400, "invalid")
    ELSE IF id \notin DOMAIN ords THEN Outcome(404, "not found")
    ELSE Outcome(200, "")

\* PATCH /orders/:id/payment
updatePaymentStatus(id, paymentStatus, transactionId) ==
    LET c == PaymentCheck(orders, id, paymentStatus)
    IN  /\ resp' = Response("updatePaymentStatus", c.code, c.msg, id)
        /\ IF c.code = 200
           THEN orders' = SetOrder(orders, id,
                    [orders[id] EXCEPT
                        !.payment.status = paymentStatus,
                        !.payment.paidAt =
                            IF paymentStatus = "paid" THEN <<year>> ELSE @,
                        !.payment.transactionId =
                            IF transactionId # "" THEN transactionId ELSE @])
           ELSE UNCHANGED orders
        /\ UNCHANGED <<nextId, year, issued, pc, loc, stale>>
        /\ UNCHANGED sideVars

\* user?.role === 'admin'
IsAdmin(user) == user.role = "admin"

\* an owner test that lets an order without customerId pass
IsOwnerOrGuestOrder(user, order) ==
    /\ user.uid # ""
    /\ order.customer.customerId # <<>> => order.customer.customerId[1] = user.uid

\* user?.uid && order.customer.customerId?.toString() === user.uid
IsOwner(user, order) ==
    /\ user.uid # ""
    /\ order.customer.customerId # <<>>
    /\ order.customer.customerId[1] = user.uid

\* cancelledBy without the "system" default: whoever is not an administrator
\* is taken for the customer
CancelledByNoSystem(user, order) ==
    IF IsAdmin(user) THEN "admin" ELSE "user"

\* the guards of getOrderById and of getOrderByOrderNumber after the lookup;
\* found is the result of findOne
ReadCheck(found, user) ==
    IF found = <<>> THEN Outcome(404, "not found")
    ELSE IF ~ IsAdmin(user) /\ ~ IsOwner(user, found[1])
    THEN Outcome(403, "not authorized")
    ELSE Outcome(200, "")

\* GET /orders/:id and GET /orders/:id/status
getOrderById(id, user) ==
    LET found == IF ValidId(id) /\ id \in DOMAIN orders THEN <<orders[id]>> ELSE <<>>
        c == IF ~ ValidId(id) THEN Outcome(400, "id") ELSE ReadCheck(found, user)
    IN  /\ resp' = [Response("getOrderById", c.code, c.msg, id) EXCEPT
                        !.data = IF c.code = 200 THEN found ELSE <<>>]
        /\ UNCHANGED <<orders, nextId, year, issued, pc, loc, stale>>
        /\ UNCHANGED sideVars

\* findOne({orderNumber}): the _id of a stored order of that number, if any
FindByNumber(ords, orderNumber) ==
    LET hits == {i \in DOMAIN ords : ords[i].orderNumber = orderNumber}
    IN  IF hits = {} THEN <<>> ELSE <<CHOOSE i \in hits : \A j \in hits : i <= j>>

\* GET /orders/number/:orderNumber; the route always binds the parameter
getOrderByOrderNumber(orderNumber, user) ==
    LET hit == FindByNumber(orders, orderNumber)
        found == IF hit = <<>> THEN <<>> ELSE <<orders[hit[1]]>>
        c == ReadCheck(found, user)
    IN  /\ resp' = [Response("getOrderByOrderNumber", c.code, c.msg,
                              IF hit = <<>> THEN 0 ELSE hit[1]) EXCEPT
                        !.data = IF c.code = 200 THEN found ELSE <<>>]
        /\ UNCHANGED <<orders, nextId, year, issued, pc, loc, stale>>
        /\ UNCHANGED sideVars

\* lines 639-645
CancelledBy(user, order) ==
    IF IsAdmin(user) THEN "admin"
    ELSE IF IsOwner(user, order) THEN "user"
    ELSE "system"

\* cancelOrder without the guard on completed orders
CancelCheckNoCompleted(ords, id, user) ==
    IF ~ ValidId(id) THEN Outcome(400, "id")
    ELSE IF id \notin DOMAIN ords THEN Outcome(404, "not found")
    ELSE IF ords[id].cancellation.isCancelled THEN Outcome(400, "already cancelled")
    ELSE IF /\ ~ IsAdmin(user)
            /\ ords[id].orderStatus # "pending"
            /\ ords[id].orderStatus # "confirmed"
    THEN Outcome(403, "not cancellable")
    ELSE Outcome(200, "")

\* cancelOrder with the role guard ahead of the guards on the order's state
CancelCheckRoleFirst(ords, id, user) ==
    IF ~ ValidId(id) THEN Outcome(400, "id")
    ELSE IF id \notin DOMAIN ords THEN Outcome(404, "not found")
    ELSE IF /\ ~ IsAdmin(user)
            /\ ords[id].orderStatus # "pending"
            /\ ords[id].orderStatus # "confirmed"
    THEN Outcome(403, "not cancellable")
    ELSE IF ords[id].cancellation.isCancelled THEN Outcome(400, "already cancelled")
    ELSE IF ords[id].orderStatus = "completed" THEN Outcome(400, "completed")
    ELSE Outcome(200, "")

\* the guards of cancelOrder
CancelCheck(ords, id, user) ==
    IF ~ ValidId(id) THEN Outcome(400, "id")
    ELSE IF id \notin DOMAIN ords THEN Outcome(404, "not found")
    ELSE IF ords[id].cancellation.isCancelled THEN Outcome(400, "already cancelled")
    ELSE IF ords[id].orderStatus = "completed" THEN Outcome(400, "completed")
    ELSE IF /\ ~ IsAdmin(user)
            /\ ords[id].orderStatus # "pending"
            /\ ords[id].orderStatus # "confirmed"
    THEN Outcome(403, "not cancellable")
    ELSE Outcome(200, "")

\* PATCH /orders/:id/cancel
cancelOrder(id, user) ==
    LET c == CancelCheck(orders, id, user)
    IN  /\ resp' = Response("cancelOrder", c.code, c.msg, id)
        /\ IF c.code = 200
           THEN orders' = SetOrder(orders, id,
                    [orders[id] EXCEPT
                        !.orderStatus = "cancelled",
                        !.cancellation.isCancelled = TRUE,
                        !.cancellation.cancelledBy =
                            <<CancelledBy(user, orders[id])>>])
           ELSE UNCHANGED orders
        /\ UNCHANGED <<nextId, year, issued, pc, loc, stale>>
        /\ UNCHANGED sideVars

\* A PUT body is a JSON object; its keys are the fields below, absent or
\* present.  isCancelledPath is the key "cancellation.isCancelled": $set
\* reads a key with a dot as the path of a nested field.
NoBody ==
    [id |-> <<>>, orderNumber |-> <<>>, createdAt |-> <<>>, orderStatus |-> <<>>,
     cancellation |-> <<>>, isCancelledPath |-> <<>>, payment |-> <<>>,
     pricing |-> <<>>, notes |-> <<>>]

\* Object.keys(updateData).length === 0
EmptyBody(body) == body = NoBody

\* lines 716-721: delete updateData._id, .orderNumber, .createdAt,
\* .orderStatus, .cancellation
StripBody(body) ==
    [body EXCEPT !.id = <<>>, !.orderNumber = <<>>, !.createdAt = <<>>,
                 !.orderStatus = <<>>, !.cancellation = <<>>]

\* {$set: updateData}: every key that is present overwrites its field
ApplySet(order, body) ==
    [order EXCEPT
        !.orderNumber = IF body.orderNumber # <<>> THEN body.orderNumber[1] ELSE @,
        !.createdAt = IF body.createdAt # <<>> THEN body.createdAt[1] ELSE @,
        !.orderStatus = IF body.orderStatus # <<>> THEN body.orderStatus[1] ELSE @,
        !.cancellation =
            LET c == IF body.cancellation # <<>> THEN body.cancellation[1] ELSE @
            IN  IF body.isCancelledPath # <<>>
                THEN [c EXCEPT !.isCancelled = body.isCancelledPath[1]]
                ELSE c,
        !.payment = IF body.payment # <<>> THEN body.payment[1] ELSE @,
        !.pricing = IF body.pricing # <<>> THEN body.pricing[1] ELSE @]

\* updateOrder guarding cancelled orders only
UpdateCheckCancelledOnly(ords, id, body) ==
    IF ~ ValidId(id) THEN Outcome(400, "id")
    ELSE IF EmptyBody(body) THEN Outcome(400, "body")
    ELSE IF id \notin DOMAIN ords THEN Outcome(404, "not found")
    ELSE IF ords[id].cancellation.isCancelled THEN Outcome(400, "terminal")
    ELSE Outcome(200, "")

\* the guards of updateOrder
UpdateCheck(ords, id, body) ==
    IF ~ ValidId(id) THEN Outcome(400, "id")
    ELSE IF EmptyBody(body) THEN Outcome(400, "body")
    ELSE IF id \notin DOMAIN ords THEN Outcome(404, "not found")
    ELSE IF ords[id].orderStatus = "completed" \/ ords[id].cancellation.isCancelled
    THEN Outcome(400, "terminal")
    ELSE Outcome(200, "")

\* PUT /orders/:id
updateOrder(id, body) ==
    LET c == UpdateCheck(orders, id, body)
    IN  /\ resp' = Response("updateOrder", c.code, c.msg, id)
        /\ IF c.code = 200
           THEN orders' = SetOrder(orders, id, ApplySet(orders[id], StripBody(body)))
           ELSE UNCHANGED orders
        /\ UNCHANGED <<nextId, year, issued, pc, loc, stale>>
        /\ UNCHANGED sideVars

\* ------------------------------------------------------------- requests
\* {customer: {name: "A", email: "a@x.c", phone: "123", customerId: "u1"},
\*  plan: {name: "Basic", price: "$49"}}
BaseReq ==
    [customer |-> <<[name |-> "A", email |-> <<"a", "@", "x", ".", "c">>,
                     phone |-> "123", customerId |-> <<"u1">>]>>,
     pricing |-> <<>>,
     plan |-> <<[name |-> "Basic", price |-> << <<"$", "4", "9">> >>]>>,
     planName |-> "",
     planPrice |-> <<>>,
     items |-> <<>>,
     payment |-> <<>>,
     transactionId |-> "",
     orderStatus |-> "",
     cancellation |-> <<>>]

\* the same order placed without an account
GuestReq ==
    [BaseReq EXCEPT !.customer =
        <<[name |-> "A", email |-> <<"a", "@", "x", ".", "c">>,
           phone |-> "123", customerId |-> <<>>]>>]

\* a body that also carries orderStatus and cancellation
ForgedReq ==
    [BaseReq EXCEPT !.orderStatus = "completed",
                    !.cancellation = <<[isCancelled |-> TRUE]>>]

\* a body without the customer
NoCustomerReq == [BaseReq EXCEPT !.customer = <<>>]

CreateReqs == {BaseReq, GuestReq, ForgedReq, NoCustomerReq}

\* ------------------------------------------------------------------ Init
NoOrders == [i \in {} |-> 0]

\* the one order of a store whose earlier orders of the year were deleted
SeedOrder ==
    NewOrder(GuestReq, OrderNumber(FirstYear, PadStart(ToStr(SeedSeq), PadWidth)),
             [year |-> FirstYear, month |-> 1])

NoLocals ==
    [req |-> BaseReq, orderNumber |-> OrderNumber(0, <<>>),
     id |-> 0, orderStatus |-> "", user |-> [uid |-> "", role |-> ""],
     body |-> NoBody]

\* the clock starts on the first day of the year
StartDate == [month |-> 1, day |-> 1]

\* no dashboard request in flight: its position, the figures it has read
\* so far and (a history, not in the code) the stores it has read them from
NoStats ==
    [pc |-> "idle", totalRevenue |-> 0, totalOrders |-> 0, paidOrdersCount |-> 0,
     seen |-> {}]

\* let db = null, let client = null, let dbInitialized = false
NoConn ==
    [entry |-> "", boot |-> "", db |-> FALSE, clients |-> 0,
     dbInitialized |-> FALSE, inits |-> 0]

\* the numbering specification also starts from the seeded store
InitNumbering ==
    /\ orders \in {NoOrders, [i \in {0} |-> SeedOrder]}
    /\ nextId = 1
    /\ year = FirstYear
    /\ resp = Response("", 0, "", 0)
    /\ issued = {orders[i].orderNumber : i \in DOMAIN orders}
    /\ pc = [p \in Procs |-> "idle"]
    /\ loc = [p \in Procs |-> NoLocals]
    /\ stale = [p \in Procs |-> FALSE]
    /\ date = StartDate
    /\ stats = NoStats
    /\ banners = [i \in {} |-> 0]
    /\ accounts = [claims |-> [u \in {} |-> <<>>], users |-> [u \in {} |-> ""]]
    /\ conn = NoConn

\* the state after construction: an empty collection
Init == InitNumbering /\ orders = NoOrders

\* ------------------------------------------- numbering: create and delete
NumCreate == \E req \in CreateReqs : nextId <= MaxNumbered /\ createOrder(req)

NumDelete == \E id \in -1 .. MaxNumbered : deleteOrder(id)

NextNumbering == NumCreate \/ NumDelete \/ Tick

SpecNumbering == InitNumbering /\ [][NextNumbering]_vars

\* ------------------------------------ createOrder between its awaits
\* lines 28-150: the body is validated; the transaction id lookup is the
\* only read of the store
CreateStart(p, req) ==
    LET err == ValidateCreate(req, orders)
    IN  /\ pc[p] = "idle"
        /\ IF err # ""
           THEN /\ resp' = Response("createOrder", 400, err, 0)
                /\ UNCHANGED <<pc, loc>>
           ELSE /\ pc' = [pc EXCEPT ![p] = "generate"]
                /\ loc' = [loc EXCEPT ![p].req = req]
                /\ UNCHANGED resp
        /\ UNCHANGED <<orders, nextId, year, issued, stale>>
        /\ UNCHANGED sideVars

\* line 153: await generateOrderNumber(), whose find is one read of the store
CreateGenerate(p) ==
    /\ pc[p] = "generate"
    /\ pc' = [pc EXCEPT ![p] = "insert"]
    /\ loc' = [loc EXCEPT ![p].orderNumber = generateOrderNumber(orders, year)]
    /\ stale' = [stale EXCEPT ![p] = FALSE]
    /\ UNCHANGED <<orders, nextId, year, resp, issued>>
    /\ UNCHANGED sideVars

\* lines 155-193: the document is built and inserted, 201 is sent
CreateInsert(p) ==
    /\ pc[p] = "insert"
    /\ orders' = Insert(orders, nextId, NewOrder(loc[p].req, loc[p].orderNumber, Now))
    /\ nextId' = nextId + 1
    /\ issued' = issued \cup {loc[p].orderNumber}
    /\ resp' = Response("createOrder", 201, "", nextId)
    /\ pc' = [pc EXCEPT ![p] = "idle"]
    /\ loc' = [loc EXCEPT ![p] = NoLocals]
    /\ stale' = [q \in Procs |-> q # p /\ pc[q] # "idle"]
    /\ UNCHANGED year
    /\ UNCHANGED sideVars

\* requests that passed validation and have not inserted yet
InFlight == {p \in Procs : pc[p] # "idle"}

\* the bodies the racing requests carry
RaceReqs == {BaseReq, NoCustomerReq}

RaceStart ==
    \E p \in Procs, req \in RaceReqs :
        nextId + Cardinality(InFlight) <= MaxRaced /\ CreateStart(p, req)

RaceGenerate == \E p \in Procs : CreateGenerate(p)

RaceInsert == \E p \in Procs : CreateInsert(p)

RaceDelete == \E id \in -1 .. MaxRaced : deleteOrder(id)

NextRace == RaceStart \/ RaceGenerate \/ RaceInsert \/ RaceDelete

SpecRace == Init /\ [][NextRace]_vars

\* ------------------- the guarded writers between their read and their write
\* updateOrderStatus, lines 438-481: the guards, on the order findOne read
StatusRead(p, id, orderStatus) ==
    LET c == StatusCheck(orders, id, orderStatus)
    IN  /\ pc[p] = "idle"
        /\ IF c.code # 200
           THEN /\ resp' = Response("updateOrderStatus", c.code, c.msg, id)
                /\ UNCHANGED <<pc, loc>>
           ELSE /\ pc' = [pc EXCEPT ![p] = "statusWrite"]
                /\ loc' = [loc EXCEPT ![p].id = id, ![p].orderStatus = orderStatus]
                /\ UNCHANGED resp
        /\ UNCHANGED <<orders, nextId, year, issued, stale>>
        /\ UNCHANGED sideVars

\* updateOrderStatus, lines 483-501: updateOne and the answer
StatusWrite(p) ==
    /\ pc[p] = "statusWrite"
    /\ orders' = SetOrder(orders, loc[p].id,
                    [orders[loc[p].id] EXCEPT !.orderStatus = loc[p].orderStatus])
    /\ resp' = Response("updateOrderStatus", 200, "", loc[p].id)
    /\ pc' = [pc EXCEPT ![p] = "idle"]
    /\ loc' = [loc EXCEPT ![p] = NoLocals]
    /\ UNCHANGED <<nextId, year, issued, stale>>
    /\ UNCHANGED sideVars

\* cancelOrder, lines 588-637: the guards, on the order findOne read
CancelRead(p, id, user) ==
    LET c == CancelCheck(orders, id, user)
    IN  /\ pc[p] = "idle"
        /\ IF c.code # 200
           THEN /\ resp' = Response("cancelOrder", c.code, c.msg, id)
                /\ UNCHANGED <<pc, loc>>
           ELSE /\ pc' = [pc EXCEPT ![p] = "cancelWrite"]
                /\ loc' = [loc EXCEPT ![p].id = id, ![p].user = user]
                /\ UNCHANGED resp
        /\ UNCHANGED <<orders, nextId, year, issued, stale>>
        /\ UNCHANGED sideVars

\* cancelOrder, lines 639-668: cancelledBy is computed from the order that
\* was read, where customer does not change; updateOne and the answer
CancelWrite(p) ==
    /\ pc[p] = "cancelWrite"
    /\ orders' = SetOrder(orders, loc[p].id,
                    [orders[loc[p].id] EXCEPT
                        !.orderStatus = "cancelled",
                        !.cancellation.isCancelled = TRUE,
                        !.cancellation.cancelledBy =
                            <<CancelledBy(loc[p].user, orders[loc[p].id])>>])
    /\ resp' = Response("cancelOrder", 200, "", loc[p].id)
    /\ pc' = [pc EXCEPT ![p] = "idle"]
    /\ loc' = [loc EXCEPT ![p] = NoLocals]
    /\ UNCHANGED <<nextId, year, issued, stale>>
    /\ UNCHANGED sideVars

\* updateOrder, lines 679-714: the guards, on the order findOne read
UpdateRead(p, id, body) ==
    LET c == UpdateCheck(orders, id, body)
    IN  /\ pc[p] = "idle"
        /\ IF c.code # 200
           THEN /\ resp' = Response("updateOrder", c.code, c.msg, id)
                /\ UNCHANGED <<pc, loc>>
           ELSE /\ pc' = [pc EXCEPT ![p] = "updateWrite"]
                /\ loc' = [loc EXCEPT ![p].id = id, ![p].body = body]
                /\ UNCHANGED resp
        /\ UNCHANGED <<orders, nextId, year, issued, stale>>
        /\ UNCHANGED sideVars

\* updateOrder, lines 716-737: the keys are deleted, updateOne, the answer
UpdateWrite(p) ==
    /\ pc[p] = "updateWrite"
    /\ orders' = SetOrder(orders, loc[p].id,
                    ApplySet(orders[loc[p].id], StripBody(loc[p].body)))
    /\ resp' = Response("updateOrder", 200, "", loc[p].id)
    /\ pc' = [pc EXCEPT ![p] = "idle"]
    /\ loc' = [loc EXCEPT ![p] = NoLocals]
    /\ UNCHANGED <<nextId, year, issued, stale>>
    /\ UNCHANGED sideVars

\* ------------------------------------------------- lifecycle: all handlers
\* req.user as verifyToken attaches it
Callers ==
    {[uid |-> "u1", role |-> "user"],
     [uid |-> "u2", role |-> "user"],
     [uid |-> "root", role |-> "admin"]}

\* -1 is an id ObjectId.isValid rejects
OrderIds == -1 .. MaxOrders

StatusInputs == validStatuses \cup {"", "shipped"}

PaymentInputs == {"paid", "", "cash"}

\* {notes: "n"}
NotesBody == [NoBody EXCEPT !.notes = <<"n">>]

\* a body made of the keys updateOrder deletes
ForgedBody ==
    [NoBody EXCEPT
        !.id = <<99>>,
        !.orderNumber = <<OrderNumber(FirstYear, <<0, 0, 0, 0>>)>>,
        !.createdAt = <<0>>,
        !.orderStatus = <<"completed">>,
        !.cancellation = <<[isCancelled |-> TRUE, cancelledBy |-> <<"admin">>]>>]

\* {"cancellation.isCancelled": true}
DottedBody == [NoBody EXCEPT !.isCancelledPath = <<TRUE>>]

\* {payment: {status: "paid"}}: $set replaces the whole sub-record
PaymentBody ==
    [NoBody EXCEPT
        !.payment = <<[status |-> "paid", transactionId |-> "", paidAt |-> <<>>]>>]

UpdateBodies == {NoBody, NotesBody, ForgedBody, DottedBody, PaymentBody}

\* the bodies the lifecycle specification creates orders from
LifeReqs == {BaseReq, ForgedReq, NoCustomerReq}

LifeCreate == \E req \in LifeReqs : nextId <= MaxOrders /\ createOrder(req)

LifeStatus == \E id \in OrderIds, st \in StatusInputs : updateOrderStatus(id, st)

LifePayment == \E id \in OrderIds, ps \in PaymentInputs : updatePaymentStatus(id, ps, "")

LifeCancel == \E id \in OrderIds, user \in Callers : cancelOrder(id, user)

LifeUpdate == \E id \in OrderIds, body \in UpdateBodies : updateOrder(id, body)

LifeDelete == \E id \in OrderIds : deleteOrder(id)

Next ==
    LifeCreate \/ LifeStatus \/ LifePayment \/ LifeCancel \/ LifeUpdate \/ LifeDelete

Spec == Init /\ [][Next]_vars

\* ------------------------- amendments: payment and pricing after creation
\* a body that carries the transaction id of its payment
TxnReq == [BaseReq EXCEPT !.transactionId = "t1"]

\* a body whose payment.status is none of the four payment statuses
CashReq ==
    [BaseReq EXCEPT !.payment = <<[status |-> "cash", transactionId |-> ""]>>]

AmendReqs == {BaseReq, TxnReq, CashReq}

\* the transaction ids PATCH /orders/:id/payment is called with
TxnInputs == {"", "t1"}

\* {pricing: {subtotal: 0, grandTotal: 0}}
PricingBody == [NoBody EXCEPT !.pricing = <<[subtotal |-> 0, grandTotal |-> 0]>>]

\* {payment: {status: "paid", transactionId: "t1"}}
TxnBody ==
    [NoBody EXCEPT
        !.payment = <<[status |-> "paid", transactionId |-> "t1", paidAt |-> <<>>]>>]

AmendBodies == {PricingBody, TxnBody}

AmendCreate == \E req \in AmendReqs : nextId <= MaxAmended /\ createOrder(req)

AmendPayment ==
    \E id \in 0 .. MaxAmended, ps \in PaymentInputs, txn \in TxnInputs :
        updatePaymentStatus(id, ps, txn)

AmendUpdate == \E id \in 0 .. MaxAmended, body \in AmendBodies : updateOrder(id, body)

NextAmend == AmendCreate \/ AmendPayment \/ AmendUpdate

SpecAmend == Init /\ [][NextAmend]_vars

\* ------------------------------------------ intake: the bodies of POST /
\* {customer, items: [{name: "Site", quantity: 1, unitPrice: 49, totalPrice: 49}]}
OneItem == <<[name |-> "Site", quantity |-> 1, unitPrice |-> 490, totalPrice |-> 490]>>

\* an item whose quantity is 0
BadItem == <<[name |-> "Site", quantity |-> 0, unitPrice |-> 490, totalPrice |-> 490]>>

\* "a.x.c": no @
BadEmail == <<"a", ".", "x", ".", "c">>

\* a body with neither pricing nor plan nor planPrice
BareReq == [BaseReq EXCEPT !.plan = <<>>]

\* pricing: {grandTotal: g} and the items given
PricedReq(g, items) ==
    [BareReq EXCEPT !.pricing = <<[subtotal |-> <<>>, grandTotal |-> g]>>,
                    !.items = items]

\* pricing: {subtotal: 49} without grandTotal
NoTotalReq ==
    [BareReq EXCEPT !.pricing = <<[subtotal |-> <<490>>, grandTotal |-> <<>>]>>,
                    !.items = OneItem]

\* plan: {name: "Basic", price: p}
PlanReq(p) == [BaseReq EXCEPT !.plan = <<[name |-> "Basic", price |-> p]>>]

\* planName: "Pro", planPrice: p
FlatReq(p) == [BareReq EXCEPT !.planName = "Pro", !.planPrice = <<p>>]

\* pricing: {grandTotal: 49} together with plan: {name: "Basic", price: "$49"}
PricedPlanReq ==
    [BaseReq EXCEPT !.pricing = <<[subtotal |-> <<>>, grandTotal |-> <<490>>]>>]

\* a malformed e-mail, with the items given
BadEmailReq(items) ==
    [PricedReq(<<490>>, items) EXCEPT !.customer =
        <<[name |-> "A", email |-> BadEmail, phone |-> "123",
           customerId |-> <<"u1">>]>>]

IntakeReqs ==
    {BaseReq, NoCustomerReq, BareReq, TxnReq,
     [NoCustomerReq EXCEPT !.plan = <<>>],
     PricedReq(<<490>>, OneItem), PricedReq(<<0>>, OneItem),
     PricedReq(<<-50>>, OneItem), PricedReq(<<490>>, <<>>),
     PricedReq(<<490>>, BadItem), NoTotalReq,
     PlanReq(<< <<"f", "r", "e", "e">> >>), PlanReq(<< <<"0">> >>), PlanReq(<<>>),
     PlanReq(<< <<"-", "5">> >>),
     FlatReq(<<"9", "9", ".", "5">>), FlatReq(<<"0">>), FlatReq(<<>>),
     PricedPlanReq, BadEmailReq(OneItem), BadEmailReq(BadItem),
     [BadEmailReq(OneItem) EXCEPT !.transactionId = "t1"]}

IntakeCreate == \E req \in IntakeReqs : nextId <= MaxIntake /\ createOrder(req)

IntakeDelete == \E id \in 1 .. MaxIntake : deleteOrder(id)

NextIntake == IntakeCreate \/ IntakeDelete

SpecIntake == Init /\ [][NextIntake]_vars

\* --------------------------------------------- reads of a single order
ReadReqs == {BaseReq, GuestReq}

\* the order numbers GET /orders/number/:orderNumber is called with
ReadNumbers ==
    {OrderNumber(FirstYear, PadStart(ToStr(n), PadWidth)) : n \in 1 .. (MaxRead + 1)}

ReadCreate == \E req \in ReadReqs : nextId <= MaxRead /\ createOrder(req)

ReadDelete == \E id \in 1 .. MaxRead : deleteOrder(id)

ReadById == \E id \in -1 .. MaxRead, user \in Callers : getOrderById(id, user)

ReadByNumber ==
    \E orderNumber \in ReadNumbers, user \in Callers :
        getOrderByOrderNumber(orderNumber, user)

NextRead == ReadCreate \/ ReadDelete \/ ReadById \/ ReadByNumber

SpecRead == Init /\ [][NextRead]_vars

\* ------------------------------- interleaved writers of the same order
\* the status requests carry confirmed or completed; the cancel requests
\* come from an administrator or from the customer of the order
NextInterleave ==
    \/ nextId <= MaxInterleaved /\ createOrder(BaseReq)
    \/ \E p \in Procs, id \in 1 .. MaxInterleaved, st \in {"confirmed", "completed"} :
            StatusRead(p, id, st)
    \/ \E p \in Procs : StatusWrite(p)
    \/ \E p \in Procs, id \in 1 .. MaxInterleaved,
            user \in {[uid |-> "root", role |-> "admin"], [uid |-> "u1", role |-> "user"]} :
            CancelRead(p, id, user)
    \/ \E p \in Procs : CancelWrite(p)
    \/ \E p \in Procs, id \in 1 .. MaxInterleaved : UpdateRead(p, id, PaymentBody)
    \/ \E p \in Procs : UpdateWrite(p)

SpecInterleave == Init /\ [][NextInterleave]_vars

\* ------------------------------------------------- home banners (admin)
\* a banner body: title and isActive, absent or present
BannerBody(title, isActive) == [title |-> title, isActive |-> isActive]

\* updateMany({isActive: true [, _id: {$ne: id}]}, {$set: {isActive: false}});
\* except is the set of ids the filter leaves out
Deactivate(bs, except) ==
    [i \in DOMAIN bs |->
        IF i \notin except /\ bs[i].isActive = TRUE
        THEN [bs[i] EXCEPT !.isActive = FALSE]
        ELSE bs[i]]

\* POST /banners.  Reading title.highlight of a body without title throws;
\* the catch block answers 500 after the updateMany has run.
createBanner(body) ==
    LET isActive == body.isActive # <<>> /\ body.isActive[1]
        deactivated == IF isActive THEN Deactivate(banners, {}) ELSE banners
        banner == [title |-> body.title[1],
                   isActive |-> IF body.isActive # <<>> THEN body.isActive[1] ELSE TRUE]
    IN  /\ IF body.title = <<>>
           THEN /\ banners' = deactivated
                /\ resp' = Response("createBanner", 500, "failed", 0)
                /\ UNCHANGED nextId
           ELSE /\ banners' = Insert(deactivated, nextId, banner)
                /\ resp' = Response("createBanner", 201, "", nextId)
                /\ nextId' = nextId + 1
        /\ UNCHANGED <<orders, year, issued, pc, loc, stale, date, stats, accounts, conn>>

\* GET /banners: findOne({isActive: true})
getBanner ==
    LET active == {i \in DOMAIN banners : banners[i].isActive = TRUE}
    IN  /\ resp' = IF active = {}
                   THEN Response("getBanner", 404, "no active banner", 0)
                   ELSE [Response("getBanner", 200, "",
                                  CHOOSE i \in active : \A j \in active : i <= j)
                            EXCEPT !.data = <<banners[CHOOSE i \in active :
                                                         \A j \in active : i <= j]>>]
        /\ UNCHANGED <<orders, nextId, year, issued, pc, loc, stale,
                       date, stats, banners, accounts, conn>>

\* the guards of updateBanner
BannerUpdateCheck(bs, id, body) ==
    IF ~ ValidId(id) THEN Outcome(400, "id")
    ELSE IF body.title = <<>> /\ body.isActive = <<>> THEN Outcome(400, "body")
    ELSE IF id \notin DOMAIN bs THEN Outcome(404, "not found")
    ELSE Outcome(200, "")

\* PUT and PATCH /banners/:id
updateBanner(id, body) ==
    LET c == BannerUpdateCheck(banners, id, body)
        deactivated == IF body.isActive = <<TRUE>>
                       THEN Deactivate(banners, {id}) ELSE banners
    IN  /\ resp' = Response("updateBanner", c.code, c.msg, id)
        /\ IF c.code = 200
           THEN banners' =
                    [deactivated EXCEPT ![id] =
                        [title |-> IF body.title # <<>> THEN body.title[1] ELSE @.title,
                         isActive |-> IF body.isActive # <<>> THEN body.isActive[1]
                                      ELSE @.isActive]]
           ELSE UNCHANGED banners
        /\ UNCHANGED <<orders, nextId, year, issued, pc, loc, stale,
                       date, stats, accounts, conn>>

\* DELETE /banners/:id
deleteBanner(id) ==
    /\ IF ~ ValidId(id)
       THEN /\ resp' = Response("deleteBanner", 400, "id", id)
            /\ UNCHANGED banners
       ELSE IF id \in DOMAIN banners
       THEN /\ banners' = [i \in DOMAIN banners \ {id} |-> banners[i]]
            /\ resp' = Response("deleteBanner", 200, "", id)
       ELSE /\ resp' = Response("deleteBanner", 404, "not found", id)
            /\ UNCHANGED banners
    /\ UNCHANGED <<orders, nextId, year, issued, pc, loc, stale,
                   date, stats, accounts, conn>>

\* the bodies of POST /banners: with or without title, isActive true, false
\* or omitted
BannerBodies ==
    {BannerBody(t, a) : t \in {<<>>, <<"Hero">>}, a \in {<<>>, <<TRUE>>, <<FALSE>>}}

NextBanner ==
    \/ \E body \in BannerBodies : nextId <= MaxBanners /\ createBanner(body)
    \/ getBanner
    \/ \E id \in -1 .. MaxBanners, body \in BannerBodies : updateBanner(id, body)
    \/ \E id \in -1 .. MaxBanners : deleteBanner(id)

SpecBanner == Init /\ [][NextBanner]_vars

\* ------------------------------------------------ accounts (admin only)
\* accounts.claims: the identity provider's users, each with its custom
\* admin claim (absent, true or false); accounts.users: the role of each
\* profile of the users collection, by firebaseUid.

\* POST /api/create-user.  The upsert of the profile is wrapped in its own
\* try/catch: dbOk is whether it succeeded.
createUser(authorized, uid, dbOk) ==
    /\ IF ~ authorized
       THEN /\ resp' = Response("createUser", 403, "Forbidden", 0)
            /\ UNCHANGED accounts
       ELSE IF uid = ""
       THEN /\ resp' = Response("createUser", 400, "uid required", 0)
            /\ UNCHANGED accounts
       ELSE IF uid \in DOMAIN accounts.claims
       THEN /\ resp' = Response("createUser", 500, "exists", 0)
            /\ UNCHANGED accounts
       ELSE /\ resp' = Response("createUser", 201, "", 0)
            /\ accounts' =
                 [claims |-> Insert(accounts.claims, uid, <<>>),
                  users |-> IF dbOk /\ uid \notin DOMAIN accounts.users
                            THEN Insert(accounts.users, uid, "user")
                            ELSE accounts.users]
    /\ UNCHANGED <<orders, nextId, year, issued, pc, loc, stale,
                   date, stats, banners, conn>>

\* POST /api/admin/set-role: the custom claim is written before the profile
\* is looked for
setUserRole(authorized, uid, role) ==
    LET claimed == [accounts EXCEPT !.claims[uid] = <<role = "admin">>]
    IN  /\ IF ~ authorized
           THEN /\ resp' = Response("setUserRole", 403, "Forbidden", 0)
                /\ UNCHANGED accounts
           ELSE IF uid = "" \/ role = ""
           THEN /\ resp' = Response("setUserRole", 400, "uid and role required", 0)
                /\ UNCHANGED accounts
           ELSE IF role \notin {"admin", "user"}
           THEN /\ resp' = Response("setUserRole", 400, "role", 0)
                /\ UNCHANGED accounts
           ELSE IF uid \notin DOMAIN accounts.claims
           THEN /\ resp' = Response("setUserRole", 500, "no such user", 0)
                /\ UNCHANGED accounts
           ELSE IF uid \notin DOMAIN accounts.users
           THEN /\ resp' = Response("setUserRole", 404, "User not found in database", 0)
                /\ accounts' = claimed
           ELSE /\ resp' = Response("setUserRole", 200, "", 0)
                /\ accounts' = [claimed EXCEPT !.users[uid] = role]
        /\ UNCHANGED <<orders, nextId, year, issued, pc, loc, stale,
                       date, stats, banners, conn>>

NextAdmin ==
    \/ \E req \in {BaseReq, NoCustomerReq} : nextId <= MaxAdmin /\ createOrder(req)
    \/ \E id \in 0 .. MaxAdmin, st \in {"confirmed", "shipped"} : updateOrderStatus(id, st)
    \/ \E id \in 0 .. MaxAdmin, user \in Callers : cancelOrder(id, user)
    \/ \E id \in 0 .. MaxAdmin, body \in {NoBody, NotesBody} : updateOrder(id, body)
    \/ \E body \in BannerBodies : nextId <= MaxAdmin /\ createBanner(body)
    \/ \E a \in BOOLEAN, uid \in {"", "u1", "u2"}, dbOk \in BOOLEAN :
            createUser(a, uid, dbOk)
    \/ \E a \in BOOLEAN, uid \in {"", "u1", "u2"},
            role \in {"", "admin", "user", "root"} :
            setUserRole(a, uid, role)

SpecAdmin == Init /\ [][NextAdmin]_vars

\* ------------------------------------------- the native-driver connection
\* conn.db: whether the module's db handle is set; conn.clients: the
\* MongoClients constructed; conn.dbInitialized: the middleware's flag;
\* conn.inits: the runs of initializeDatabases; conn.entry: the entry file
\* the process was started from; conn.boot: the connectDB() call of index.ts.
\* MONGODB_URI_FALLBACK is unset.  A request is a process of Procs.
frame == <<orders, nextId, year, issued, loc, stale, date, stats, banners, accounts>>

\* index.ts calls connectDB() without awaiting it and goes on to listen;
\* the serverless entry connects in a middleware on the first request
Boot(entry) ==
    /\ conn.entry = ""
    /\ conn' = IF entry = "index"
               THEN [conn EXCEPT !.entry = entry, !.boot = "connecting",
                                 !.clients = @ + 1]
               ELSE [conn EXCEPT !.entry = entry]
    /\ UNCHANGED <<resp, pc>>
    /\ UNCHANGED frame

\* client.connect() of the boot call settles; a rejection is logged
BootSettle(ok) ==
    /\ conn.boot = "connecting"
    /\ conn' = [conn EXCEPT !.boot = "done", !.db = ok]
    /\ UNCHANGED <<resp, pc>>
    /\ UNCHANGED frame

\* a request enters: the middleware reads dbInitialized and, if it is false,
\* starts initializeDatabases, which first awaits the Mongoose connection
Arrive(p) ==
    /\ conn.entry # ""
    /\ pc[p] = "idle"
    /\ IF conn.entry = "serverless" /\ ~ conn.dbInitialized
       THEN /\ pc' = [pc EXCEPT ![p] = "mongoose"]
            /\ conn' = [conn EXCEPT !.inits = @ + 1]
       ELSE /\ pc' = [pc EXCEPT ![p] = "handler"]
            /\ UNCHANGED conn
    /\ UNCHANGED resp
    /\ UNCHANGED frame

\* connectDB(): returns db if it is set, otherwise constructs a MongoClient
\* and awaits client.connect()
ConnectStart(p) ==
    /\ pc[p] = "mongoose"
    /\ IF conn.db
       THEN /\ conn' = [conn EXCEPT !.dbInitialized = TRUE]
            /\ pc' = [pc EXCEPT ![p] = "handler"]
       ELSE /\ conn' = [conn EXCEPT !.clients = @ + 1]
            /\ pc' = [pc EXCEPT ![p] = "connecting"]
    /\ UNCHANGED resp
    /\ UNCHANGED frame

\* client.connect() settles: db is set on success; initializeDatabases
\* catches the rejection; the middleware sets dbInitialized and calls next()
ConnectSettle(p, ok) ==
    /\ pc[p] = "connecting"
    /\ conn' = [conn EXCEPT !.db = IF ok THEN TRUE ELSE @, !.dbInitialized = TRUE]
    /\ pc' = [pc EXCEPT ![p] = "handler"]
    /\ UNCHANGED resp
    /\ UNCHANGED frame

\* the route handler calls getDB(), which throws when db is null; the
\* handler's catch answers 500
getDB(p) ==
    /\ pc[p] = "handler"
    /\ resp' = IF conn.db
               THEN Response("getDB", 200, "", p)
               ELSE Response("getDB", 500, "Database not initialized", p)
    /\ pc' = [pc EXCEPT ![p] = "idle"]
    /\ UNCHANGED conn
    /\ UNCHANGED frame

NextConnect ==
    \/ \E entry \in {"index", "serverless"} : Boot(entry)
    \/ \E ok \in BOOLEAN : BootSettle(ok)
    \/ \E p \in Procs : Arrive(p)
    \/ \E p \in Procs : ConnectStart(p)
    \/ \E p \in Procs, ok \in BOOLEAN : ConnectSettle(p, ok)
    \/ \E p \in Procs : getDB(p)

SpecConnect == Init /\ [][NextConnect]_vars

\* ------------------------------------------------------------ dashboard
monthNames ==
    <<"Jan", "Feb", "Mar", "Apr", "May", "Jun",
      "Jul", "Aug", "Sep", "Oct", "Nov", "Dec">>

\* the days of month m (1 .. 12) of year y
DaysIn(y, m) ==
    IF m = 2 THEN (IF y % 4 = 0 /\ (y % 100 # 0 \/ y % 400 = 0) THEN 29 ELSE 28)
    ELSE IF m \in {4, 6, 9, 11} THEN 30
    ELSE 31

\* months are counted from year 0: new Date(y, m, 1) normalises any m
AbsMonth(y, m) == y * 12 + (m - 1)

YearOf(a) == a \div 12

MonthOf(a) == (a % 12) + 1

\* new Date()
Today == [year |-> year, month |-> date.month, day |-> date.day]

\* d = new Date(); d.setMonth(d.getMonth() - i): the day of the month is
\* kept, and a day the target month does not have runs over into the next
\* month.  The result is the month d is in afterwards.
SetMonthBack(now, i) ==
    LET a == AbsMonth(now.year, now.month) - i
    IN  IF now.day > DaysIn(YearOf(a), MonthOf(a)) THEN a + 1 ELSE a

\* {"payment.status": "paid"}
PaidOrders(ords) == {i \in DOMAIN ords : ords[i].payment.status = "paid"}

\* {createdAt: {$gte: first day of month a, $lte: its last day}}
CreatedIn(ords, a) ==
    {i \in DOMAIN ords : AbsMonth(ords[i].createdAt.year, ords[i].createdAt.month) = a}

RECURSIVE SumGrandTotal(_, _)
\* {$group: {_id: null, total: {$sum: "$pricing.grandTotal"}}}, then
\* agg[0]?.total || 0
SumGrandTotal(ords, S) ==
    IF S = {} THEN 0
    ELSE LET i == CHOOSE x \in S : TRUE
         IN  ords[i].pricing.grandTotal + SumGrandTotal(ords, S \ {i})

\* Math.round(n / d) for d > 0: halves go up
MathRound(n, d) == (2 * n + d) \div (2 * d)

\* the growth rate as the fraction num / den
GrowthRate(lastMonthTotal, prevMonthTotal) ==
    IF prevMonthTotal > 0
    THEN [num |-> (lastMonthTotal - prevMonthTotal) * 100, den |-> prevMonthTotal]
    ELSE [num |-> 0, den |-> 1]

\* x.toFixed(1) of the fraction x: the sign and the tenths of |x|
ToFixed1(x) ==
    LET mag == IF x.num < 0 THEN 0 - x.num ELSE x.num
    IN  [neg |-> x.num < 0, tenths |-> MathRound(mag * 10, x.den)]

\* `${growthRate >= 0 ? "+" : ""}${growthRate.toFixed(1)}%`
Growth(ords, now) ==
    LET a == AbsMonth(now.year, now.month)
        lastMonthTotal == SumGrandTotal(ords, PaidOrders(ords) \cap CreatedIn(ords, a - 1))
        prevMonthTotal == SumGrandTotal(ords, PaidOrders(ords) \cap CreatedIn(ords, a - 2))
        growthRate == GrowthRate(lastMonthTotal, prevMonthTotal)
    IN  [prefix |-> IF growthRate.num >= 0 THEN "+" ELSE "",
         fixed |-> ToFixed1(growthRate)]

\* the characters of the item names of this model
Chars(name) ==
    CASE name = "UI Design" -> <<"U", "I", " ", "D", "e", "s", "i", "g", "n">>
      [] name = "Mobile App" -> <<"M", "o", "b", "i", "l", "e", " ", "A", "p", "p">>
      [] name = "App UI" -> <<"A", "p", "p", " ", "U", "I">>
      [] name = "Site" -> <<"S", "i", "t", "e">>
      [] name = "Basic" -> <<"B", "a", "s", "i", "c">>
      [] name = "Pro" -> <<"P", "r", "o">>
      [] name = "Service Plan" ->
            <<"S", "e", "r", "v", "i", "c", "e", " ", "P", "l", "a", "n">>
      [] OTHER -> <<>>

\* toLowerCase of one character
LowerChar(c) ==
    CASE c = "A" -> "a" [] c = "B" -> "b" [] c = "D" -> "d" [] c = "I" -> "i"
      [] c = "M" -> "m" [] c = "P" -> "p" [] c = "S" -> "s" [] c = "U" -> "u"
      [] OTHER -> c

toLowerCase(s) == [k \in 1 .. Len(s) |-> LowerChar(s[k])]

\* s.includes(t)
includes(s, t) ==
    \E k \in 0 .. (Len(s) - Len(t)) : SubSeq(s, k + 1, k + Len(t)) = t

\* the bucket of an item name, UI/UX tested second
CategoryAppFirst(name) ==
    LET n == toLowerCase(Chars(name))
    IN  IF includes(n, <<"a", "p", "p">>) \/ includes(n, <<"m", "o", "b", "i", "l", "e">>)
        THEN "App Dev"
        ELSE IF \/ includes(n, <<"u", "i">>) \/ includes(n, <<"u", "x">>)
                \/ includes(n, <<"d", "e", "s", "i", "g", "n">>)
        THEN "UI/UX"
        ELSE "Web Dev"

\* the bucket of an item name
Category(name) ==
    LET n == toLowerCase(Chars(name))
    IN  IF \/ includes(n, <<"u", "i">>) \/ includes(n, <<"u", "x">>)
           \/ includes(n, <<"d", "e", "s", "i", "g", "n">>)
        THEN "UI/UX"
        ELSE IF includes(n, <<"a", "p", "p">>) \/ includes(n, <<"m", "o", "b", "i", "l", "e">>)
        THEN "App Dev"
        ELSE "Web Dev"

\* {$unwind: "$items"} over the paid orders: the (order, index) pairs
PaidItems(ords) ==
    UNION {{<<i, k>> : k \in 1 .. Len(ords[i].items)} : i \in PaidOrders(ords)}

RECURSIVE SumQuantity(_, _)
SumQuantity(ords, S) ==
    IF S = {} THEN 0
    ELSE LET ik == CHOOSE x \in S : TRUE
         IN  ords[ik[1]].items[ik[2]].quantity + SumQuantity(ords, S \ {ik})

\* categoryCount[cat] after the forEach
categoryCount(ords, cat) ==
    SumQuantity(ords, {ik \in PaidItems(ords) :
                          Category(ords[ik[1]].items[ik[2]].name) = cat})

productDistribution(ords) ==
    LET ui == categoryCount(ords, "UI/UX")
        web == categoryCount(ords, "Web Dev")
        app == categoryCount(ords, "App Dev")
        totalItems == ui + web + app
    IN  <<[category |-> "UI/UX",
           percentage |-> IF totalItems # 0 THEN MathRound(ui * 100, totalItems) ELSE 35],
          [category |-> "Web Dev",
           percentage |-> IF totalItems # 0 THEN MathRound(web * 100, totalItems) ELSE 40],
          [category |-> "App Dev",
           percentage |-> IF totalItems # 0 THEN MathRound(app * 100, totalItems) ELSE 25]>>

\* for (let i = 5; i >= 0; i--): the months the six iterations look at
LoopMonths(now) == [k \in 1 .. 6 |-> SetMonthBack(now, 6 - k)]

revenueOverview(ords, now) ==
    [months |-> [k \in 1 .. 6 |-> monthNames[MonthOf(LoopMonths(now)[k])]],
     values |-> [k \in 1 .. 6 |->
                    SumGrandTotal(ords, PaidOrders(ords)
                                            \cap CreatedIn(ords, LoopMonths(now)[k]))]]

ordersOverview(ords, now) ==
    [months |-> [k \in 1 .. 6 |-> monthNames[MonthOf(LoopMonths(now)[k])]],
     orders |-> [k \in 1 .. 6 |-> Cardinality(CreatedIn(ords, LoopMonths(now)[k]))]]

\* the body of the 200 response; totalRevenue is in tenths, Math.round
\* makes it whole.  The products and the pricing plans are left out.
Report(totalRevenue, totalOrders, paidOrdersCount, ords, now) ==
    [stats |-> [totalRevenue |-> MathRound(totalRevenue, 10),
                totalOrders |-> totalOrders,
                totalUsers |-> Cardinality(DOMAIN accounts.users),
                growth |-> Growth(ords, now)],
     revenueOverview |-> revenueOverview(ords, now),
     productDistribution |-> productDistribution(ords),
     ordersOverview |-> ordersOverview(ords, now),
     paidOrders |-> [count |-> paidOrdersCount, status |-> "paid"]]

\* GET /dashboard/stats, run without another request in between
getDashboardStats ==
    /\ stats.pc = "idle"
    /\ resp' = [Response("getDashboardStats", 200, "", 0) EXCEPT
                    !.data = <<Report(SumGrandTotal(orders, PaidOrders(orders)),
                                      Cardinality(DOMAIN orders),
                                      Cardinality(PaidOrders(orders)),
                                      orders, Today)>>]
    /\ UNCHANGED <<orders, nextId, year, issued, pc, loc, stale>>
    /\ UNCHANGED sideVars

\* the days the clock of this model stops at
ClockDays == {1, 29, 31}

\* time passes: to the next of these days in the month, or to the first of
\* the next month
Advance ==
    LET later == {x \in ClockDays : x > date.day /\ x <= DaysIn(year, date.month)}
        a == AbsMonth(year, date.month) + 1
    IN  /\ IF later # {}
           THEN /\ date' = [date EXCEPT !.day = CHOOSE x \in later : \A z \in later : x <= z]
                /\ UNCHANGED year
           ELSE /\ a - AbsMonth(FirstYear, StartDate.month) <= MaxMonths
                /\ date' = [month |-> MonthOf(a), day |-> 1]
                /\ year' = YearOf(a)
        /\ UNCHANGED <<orders, nextId, resp, issued, pc, loc, stale,
                       stats, banners, accounts, conn>>

\* items: [{name: "UI Design", quantity: 1, ...}]
DesignItems ==
    <<[name |-> "UI Design", quantity |-> 1, unitPrice |-> 490, totalPrice |-> 490]>>

\* items: [{name: "Mobile App", quantity: 3, ...}, {name: "App UI", quantity: 3, ...}]
AppItems ==
    <<[name |-> "Mobile App", quantity |-> 3, unitPrice |-> 300, totalPrice |-> 900],
      [name |-> "App UI", quantity |-> 3, unitPrice |-> 100, totalPrice |-> 300]>>

\* items: [{name: "Site", quantity: 2, ...}]
SiteItems ==
    <<[name |-> "Site", quantity |-> 2, unitPrice |-> 245, totalPrice |-> 490]>>

DashReqs ==
    {PricedReq(<<490>>, DesignItems), PricedReq(<<1200>>, AppItems),
     PricedReq(<<490>>, SiteItems), PricedReq(<<1690>>, AppItems \o SiteItems)}

\* PUT /orders/:id {pricing: {subtotal: -49, grandTotal: -49}}
RefundBody == [NoBody EXCEPT !.pricing = <<[subtotal |-> -490, grandTotal |-> -490]>>]

NextDashboard ==
    \/ \E req \in DashReqs : nextId <= MaxDash /\ createOrder(req)
    \/ \E id \in 1 .. MaxDash : updatePaymentStatus(id, "paid", "")
    \/ \E id \in 1 .. MaxDash : updateOrder(id, RefundBody)
    \/ Advance
    \/ getDashboardStats

SpecDashboard == Init /\ [][NextDashboard]_vars

\* ------------------------------- the dashboard computation, read by read
\* getDashboardStats awaits each of its reads; other requests are served in
\* between.  The three figures of the snapshot are read one by one, the
\* reads after them are taken together with the response.
statsFrame == <<orders, nextId, year, issued, pc, loc, stale, date, banners, accounts, conn>>

\* await ordersCol.aggregate([... $sum: "$pricing.grandTotal"])
StatsRevenue ==
    /\ stats.pc = "idle"
    /\ stats' = [NoStats EXCEPT !.pc = "counts",
                                !.totalRevenue = SumGrandTotal(orders, PaidOrders(orders)),
                                !.seen = {orders}]
    /\ UNCHANGED resp
    /\ UNCHANGED statsFrame

\* Promise.all: ordersCol.countDocuments()
StatsTotalOrders ==
    /\ stats.pc = "counts"
    /\ stats' = [stats EXCEPT !.pc = "paid",
                              !.totalOrders = Cardinality(DOMAIN orders),
                              !.seen = @ \cup {orders}]
    /\ UNCHANGED resp
    /\ UNCHANGED statsFrame

\* Promise.all: ordersCol.countDocuments({"payment.status": "paid"})
StatsPaidOrders ==
    /\ stats.pc = "paid"
    /\ stats' = [stats EXCEPT !.pc = "rest",
                              !.paidOrdersCount = Cardinality(PaidOrders(orders)),
                              !.seen = @ \cup {orders}]
    /\ UNCHANGED resp
    /\ UNCHANGED statsFrame

\* the remaining reads and the response
StatsRespond ==
    /\ stats.pc = "rest"
    /\ resp' = [Response("getDashboardStats", 200, "", 0) EXCEPT
                    !.data = <<Report(stats.totalRevenue, stats.totalOrders,
                                      stats.paidOrdersCount, orders, Today)>>]
    /\ stats' = NoStats
    /\ UNCHANGED statsFrame

NextSnapshot ==
    \/ StatsRevenue
    \/ StatsTotalOrders
    \/ StatsPaidOrders
    \/ StatsRespond
    \/ \E req \in DashReqs : nextId <= MaxSnap /\ createOrder(req)
    \/ \E id \in 1 .. MaxSnap : updatePaymentStatus(id, "paid", "")
    \/ \E id \in 1 .. MaxSnap : deleteOrder(id)

SpecSnapshot == Init /\ [][NextSnapshot]_vars

\* ================================================================ claims
\* Every handler answers, so in Spec a step whose resp' names a handler is a
\* step of that handler on the order resp'.id; in the specifications where
\* the clock ticks, resp'.id = nextId marks the step that inserts.
\* the sequence part of an order number: at least PadWidth digits, no
\* leading zero beyond the padding, a number from 1 up
PaddedSequence(s) ==
    /\ Len(s) >= PadWidth
    /\ \A k \in 1 .. Len(s) : s[k] \in Digit
    /\ Len(s) > PadWidth => s[1] # 0
    /\ \E k \in 1 .. Len(s) : s[k] # 0

\* the orders of the store before the step are all still there, unchanged
OthersKept == \A i \in DOMAIN orders : i \in DOMAIN orders' /\ orders'[i] = orders[i]

\* C1: every successful createOrder persists exactly one new order; it is
\* pending, not cancelled, and numbered ORD-<current year>-<sequence padded
\* to 4 digits>, whatever orderStatus or cancellation the body carried.
C1_CreatePersistsPendingOrder ==
    [][(resp'.op = "createOrder" /\ resp'.code = 201 /\ resp'.id = nextId) =>
          /\ DOMAIN orders' \ DOMAIN orders = {resp'.id}
          /\ OthersKept
          /\ orders'[resp'.id].orderStatus = "pending"
          /\ orders'[resp'.id].cancellation.isCancelled = FALSE
          /\ orders'[resp'.id].orderNumber.year = year
          /\ PaddedSequence(orders'[resp'.id].orderNumber.seq)]_vars

\* an order created in the last year of the clock, after an earlier one
C1_Witness ==
    /\ resp.op = "createOrder" /\ resp.code = 201
    /\ resp.id \in DOMAIN orders
    /\ orders[resp.id].orderStatus = "pending"
    /\ orders[resp.id].orderNumber.year = LastYear
    /\ resp.id > 1

\* C2: within one calendar year, creates that do not interleave are each
\* given a sequence strictly greater than every sequence given out earlier
\* that year (so no order number is given twice), also after the order with
\* the highest number is deleted and after the sequence passes 9999.
C2_SequencesStrictlyIncrease ==
    [][\A req \in CreateReqs :
          (createOrder(req) /\ resp'.code = 201) =>
              \A n \in issued :
                  n.year = year =>
                      ParseInt(n.seq) < ParseInt(orders'[resp'.id].orderNumber.seq)]_vars

\* C3: two creates of one year that both read the latest order number before
\* either inserts hold the same order number; the store with two orders of
\* one number is the witness.
C3_RacingCreatesShareNumber ==
    \A p \in Procs, q \in Procs :
        ( /\ p # q
          /\ pc[p] = "insert" /\ pc[q] = "insert"
          /\ ~ stale[p] /\ ~ stale[q]
          /\ loc[p].orderNumber.year = loc[q].orderNumber.year )
        => loc[p].orderNumber = loc[q].orderNumber

\* two stored orders numbered ORD-<year>-0001
C3_Witness ==
    /\ resp.op = "createOrder" /\ resp.code = 201
    /\ \E i \in DOMAIN orders, j \in DOMAIN orders :
        /\ i # j
        /\ orders[i].orderNumber = orders[j].orderNumber
        /\ orders[i].orderNumber.seq = <<0, 0, 0, 1>>

\* C4: on every stored order whose orderStatus is cancelled, updateOrderStatus
\* with a target other than cancelled answers 400 and leaves it cancelled.
C4_CancelledRejectsTransition ==
    [][\A id \in DOMAIN orders, st \in StatusInputs :
          ( /\ orders[id].orderStatus = "cancelled"
            /\ st # "cancelled"
            /\ updateOrderStatus(id, st) )
          => /\ resp'.code = 400
             /\ orders'[id].orderStatus = "cancelled"]_vars

\* C5: once cancellation.isCancelled is true, every later state of the order
\* has isCancelled true and orderStatus cancelled, until it is deleted.
C5_CancellationIsOneWay ==
    [][\A id \in DOMAIN orders :
          (orders[id].cancellation.isCancelled /\ id \in DOMAIN orders')
          => /\ orders'[id].cancellation.isCancelled
             /\ orders'[id].orderStatus = "cancelled"]_vars

\* C6 as written: once orderStatus is completed, no operation changes it.
C6_CompletedIsTerminal ==
    [][\A id \in DOMAIN orders :
          (orders[id].orderStatus = "completed" /\ id \in DOMAIN orders')
          => orders'[id].orderStatus = "completed"]_vars

\* C6 amended: once orderStatus is completed, neither cancelOrder nor
\* updateOrder changes it (updateOrderStatus still may).
C6_CompletedSurvivesCancelAndUpdate ==
    [][resp'.op \in {"cancelOrder", "updateOrder"} =>
          \A id \in DOMAIN orders :
              orders[id].orderStatus = "completed"
              => id \in DOMAIN orders' /\ orders'[id].orderStatus = "completed"]_vars

\* a completed order whose cancellation was just refused
C6_Witness ==
    /\ resp.op = "cancelOrder" /\ resp.code = 400 /\ resp.msg = "completed"
    /\ resp.id \in DOMAIN orders
    /\ orders[resp.id].orderStatus = "completed"

\* C7: updateOrder on an order that is completed or has isCancelled true
\* answers 400 and leaves the whole store as it was.
C7_UpdateRejectedWhenTerminal ==
    [][\A id \in DOMAIN orders :
          ( /\ orders[id].orderStatus = "completed" \/ orders[id].cancellation.isCancelled
            /\ resp'.op = "updateOrder" /\ resp'.id = id )
          => resp'.code = 400 /\ orders' = orders]_vars

\* a completed order whose update was just refused
C7_Witness ==
    /\ resp.op = "updateOrder" /\ resp.code = 400 /\ resp.msg = "terminal"
    /\ resp.id \in DOMAIN orders
    /\ orders[resp.id].orderStatus = "completed"
    /\ ~ orders[resp.id].cancellation.isCancelled

\* C8: a successful updateOrder leaves orderNumber, createdAt, orderStatus
\* and the whole cancellation sub-record as they were, whatever the keys of
\* the body.
C8_UpdateKeepsProtectedFields ==
    [][\A id \in DOMAIN orders, body \in UpdateBodies :
          (updateOrder(id, body) /\ resp'.code = 200)
          => /\ orders'[id].orderNumber = orders[id].orderNumber
             /\ orders'[id].createdAt = orders[id].createdAt
             /\ orders'[id].orderStatus = orders[id].orderStatus
             /\ orders'[id].cancellation = orders[id].cancellation]_vars

\* C9: cancelOrder on an order that is already cancelled (isCancelled true)
\* or completed answers 400 to every caller and leaves the store as it was.
C9_CancelRejectedWhenTerminal ==
    [][\A id \in DOMAIN orders :
          ( /\ orders[id].cancellation.isCancelled \/ orders[id].orderStatus = "completed"
            /\ resp'.op = "cancelOrder" /\ resp'.id = id )
          => resp'.code = 400 /\ orders' = orders]_vars

\* a cancelled order whose second cancellation was just refused
C9_Witness ==
    /\ resp.op = "cancelOrder" /\ resp.code = 400 /\ resp.msg = "already cancelled"
    /\ resp.id \in DOMAIN orders
    /\ orders[resp.id].cancellation.isCancelled

\* C10: a caller who is not an administrator cancels an order only if it is
\* pending or confirmed and the caller is its customer; otherwise, as for
\* another user's pending order, the answer is an error and nothing changes.
C10_UserCancelsOwnOpenOrderOnly ==
    [][\A id \in DOMAIN orders, user \in Callers :
          (~ IsAdmin(user) /\ cancelOrder(id, user))
          => IF orders[id].orderStatus \in {"pending", "confirmed"}
                /\ IsOwner(user, orders[id])
             THEN TRUE
             ELSE resp'.code # 200 /\ orders' = orders]_vars

\* C11: a successful cancelOrder sets orderStatus to cancelled and
\* isCancelled to true and records cancelledBy: admin for an administrator,
\* else user for the order's customer, else system; and an administrator's
\* cancel of an order that is pending, confirmed or processing and not yet
\* cancelled succeeds.
C11_CancelRecordsActor ==
    [][\A id \in DOMAIN orders, user \in Callers :
          (resp'.op = "cancelOrder" /\ resp'.id = id /\ cancelOrder(id, user))
          => /\ resp'.code = 200 =>
                  /\ orders'[id].orderStatus = "cancelled"
                  /\ orders'[id].cancellation.isCancelled
                  /\ orders'[id].cancellation.cancelledBy =
                        << IF user.role = "admin" THEN "admin"
                           ELSE IF orders[id].customer.customerId = <<user.uid>>
                           THEN "user"
                           ELSE "system" >>
             /\ ( /\ user.role = "admin"
                  /\ orders[id].orderStatus \in {"pending", "confirmed", "processing"}
                  /\ ~ orders[id].cancellation.isCancelled )
                => resp'.code = 200]_vars

\* an order an administrator has just cancelled
C11_Witness ==
    /\ resp.op = "cancelOrder" /\ resp.code = 200
    /\ resp.id \in DOMAIN orders
    /\ orders[resp.id].orderStatus = "cancelled"
    /\ orders[resp.id].cancellation.isCancelled
    /\ orders[resp.id].cancellation.cancelledBy = <<"admin">>

\* C12: updatePaymentStatus to paid on an existing order answers 200 in
\* every orderStatus, sets payment.status to paid, stamps payment.paidAt with
\* the current time and leaves orderStatus, the cancellation sub-record and
\* every other order as they were.
C12_PaidLeavesOrderStatus ==
    [][\A id \in DOMAIN orders :
          (resp'.op = "updatePaymentStatus" /\ resp'.id = id
              /\ updatePaymentStatus(id, "paid", ""))
          => /\ resp'.code = 200
             /\ DOMAIN orders' = DOMAIN orders
             /\ orders'[id].payment.status = "paid"
             /\ orders'[id].payment.paidAt = <<year>>
             /\ orders'[id].orderStatus = orders[id].orderStatus
             /\ orders'[id].cancellation = orders[id].cancellation
             /\ \A j \in DOMAIN orders \ {id} : orders'[j] = orders[j]]_vars

\* a cancelled order that was just marked paid
C12_Witness ==
    /\ resp.op = "updatePaymentStatus" /\ resp.code = 200
    /\ resp.id \in DOMAIN orders
    /\ orders[resp.id].cancellation.isCancelled
    /\ orders[resp.id].orderStatus = "cancelled"
    /\ orders[resp.id].payment.status = "paid"
    /\ orders[resp.id].payment.paidAt # <<>>

\* C13: in every reachable state no two stored orders have the same
\* non-empty payment.transactionId.
C13_TransactionIdsUnique ==
    \A i \in DOMAIN orders, j \in DOMAIN orders :
        (i # j /\ orders[i].payment.transactionId # "")
        => orders[i].payment.transactionId # orders[j].payment.transactionId

\* C14: in every reachable state every stored order has a pricing.grandTotal
\* strictly greater than 0.
C14_GrandTotalPositive ==
    \A i \in DOMAIN orders :
        orders[i].pricing.grandTotal # NaN /\ orders[i].pricing.grandTotal > 0

\* C16: in every reachable state every stored order's orderStatus is one of
\* the five order statuses and its payment.status one of the four payment
\* statuses.
C16_StatusesWithinEnums ==
    \A i \in DOMAIN orders :
        /\ orders[i].orderStatus \in validStatuses
        /\ orders[i].payment.status \in validPaymentStatuses

\* the grand total a body resolves to is missing, zero or negative
TotalNotPositive(req) ==
    LET r == ResolvePricing(req)
    IN  \/ ~ r.found
        \/ r.pricingData.grandTotal # NaN /\ r.pricingData.grandTotal <= 0

FailsCustomer(req) ==
    \/ req.customer = <<>>
    \/ req.customer[1].name = "" \/ req.customer[1].email = <<>>
    \/ req.customer[1].phone = ""

FailsEmail(req) == ~ FailsCustomer(req) /\ ~ EmailOk(req.customer[1].email)

FailsItems(req) == ResolveItems(req) = <<>>

FailsItem(req) ==
    \E k \in 1 .. Len(ResolveItems(req)) :
        LET item == ResolveItems(req)[k]
        IN  item.name = "" \/ item.quantity = 0 \/ item.unitPrice = 0
                \/ item.totalPrice = 0

FailsTransactionId(req, ords) ==
    \E i \in DOMAIN ords :
        /\ FinalTransactionId(req) # ""
        /\ ords[i].payment.transactionId = FinalTransactionId(req)

\* the message of the first check of a list that fails, "" if none does
RECURSIVE FirstFailing(_)
FirstFailing(checks) ==
    IF checks = <<>> THEN ""
    ELSE IF checks[1].fails THEN checks[1].msg
    ELSE FirstFailing(Tail(checks))

Check(msg, fails) == [msg |-> msg, fails |-> fails]

\* C17 as written: the error of createOrder is that of the first failing
\* check in the order customer, pricing, at least one item, each item,
\* e-mail format, transaction id; an invalid item wins over a malformed
\* e-mail.
C17_ItemsBeforeEmail ==
    [][\A req \in IntakeReqs :
          (resp'.op = "createOrder" /\ createOrder(req))
          => resp'.msg = FirstFailing(<<
                 Check("customer", FailsCustomer(req)),
                 Check("pricing", ~ ResolvePricing(req).found),
                 Check("grandTotal", TotalNotPositive(req)),
                 Check("items", FailsItems(req)),
                 Check("item", FailsItem(req)),
                 Check("email", FailsEmail(req)),
                 Check("transactionId", FailsTransactionId(req, orders)) >>)]_vars

\* C17 amended: the error of createOrder is that of the first failing check
\* in the order customer, pricing, at least one item, e-mail format, each
\* item, transaction id; a malformed e-mail wins over an invalid item.
C17_EmailBeforeItems ==
    [][\A req \in IntakeReqs :
          (resp'.op = "createOrder" /\ createOrder(req))
          => resp'.msg = FirstFailing(<<
                 Check("customer", FailsCustomer(req)),
                 Check("pricing", ~ ResolvePricing(req).found),
                 Check("grandTotal", TotalNotPositive(req)),
                 Check("items", FailsItems(req)),
                 Check("email", FailsEmail(req)),
                 Check("item", FailsItem(req)),
                 Check("transactionId", FailsTransactionId(req, orders)) >>)]_vars

\* a create refused for its e-mail while an order with the transaction id
\* t1 is stored: the e-mail check ran before the transaction id lookup
C17_Witness ==
    /\ resp.op = "createOrder" /\ resp.code = 400 /\ resp.msg = "email"
    /\ \E i \in DOMAIN orders : orders[i].payment.transactionId = "t1"

\* the price of the plan a body carries, as a plan object or as planPrice
PlanPrice(req) ==
    IF req.plan # <<>> THEN PriceOf(req.plan[1].price)
    ELSE IF req.planPrice # <<>> THEN PriceOf(req.planPrice)
    ELSE 0

PlanName(req) == IF req.plan # <<>> THEN req.plan[1].name ELSE req.planName

\* C18: a createOrder without line items but with a plan (a plan object or
\* planName and planPrice) of a positive price succeeds, and its order has
\* exactly one item, named after the plan, of quantity 1 and with unitPrice
\* and totalPrice equal to pricing.grandTotal; also when the body carries a
\* pricing object next to the plan.
C18_PlanSynthesizesItem ==
    [][\A req \in IntakeReqs :
          ( /\ resp'.op = "createOrder"
            /\ req.items = <<>>
            /\ PlanPrice(req) # NaN /\ PlanPrice(req) > 0
            /\ ~ FailsCustomer(req) /\ ~ FailsEmail(req)
            /\ ~ FailsTransactionId(req, orders)
            /\ createOrder(req) )
          => /\ resp'.code = 201
             /\ orders'[resp'.id].items =
                   <<[name |-> PlanName(req), quantity |-> 1,
                      unitPrice |-> orders'[resp'.id].pricing.grandTotal,
                      totalPrice |-> orders'[resp'.id].pricing.grandTotal]>>]_vars

\* what a read of the order by a caller who is not an administrator must
\* answer: the order to its customer, 403 and no data to anyone else
OwnerOnly(user, order) ==
    IF order.customer.customerId = <<user.uid>>
    THEN resp'.code = 200 /\ resp'.data = <<order>>
    ELSE resp'.code = 403 /\ resp'.data = <<>>

\* C19: getOrderById and getOrderByOrderNumber answer a caller who is not
\* an administrator with the order only if the caller's uid is the order's
\* customer.customerId; otherwise with 403 and no order, also when the
\* order has no customerId.
C19_ReadsOwnerOnly ==
    [][\A user \in Callers :
          user.role # "admin" =>
            /\ \A id \in DOMAIN orders :
                  (resp'.op = "getOrderById" /\ getOrderById(id, user))
                  => OwnerOnly(user, orders[id])
            /\ \A id \in DOMAIN orders :
                  ( /\ resp'.op = "getOrderByOrderNumber"
                    /\ getOrderByOrderNumber(orders[id].orderNumber, user) )
                  => OwnerOnly(user, orders[id])]_vars

\* a read of an order without customerId that was just refused
C19_Witness ==
    /\ resp.op \in {"getOrderById", "getOrderByOrderNumber"}
    /\ resp.code = 403 /\ resp.data = <<>>
    /\ resp.id \in DOMAIN orders
    /\ orders[resp.id].customer.customerId = <<>>

\* C20: GET /orders/number/:orderNumber answers with an order only if the
\* caller is an administrator; any other caller gets no order from it, not
\* even the caller's own.
C20_NumberLookupAdminOnly ==
    [][\A user \in Callers, orderNumber \in ReadNumbers :
          ( /\ resp'.op = "getOrderByOrderNumber"
            /\ user.role # "admin"
            /\ getOrderByOrderNumber(orderNumber, user) )
          => resp'.code # 200 /\ resp'.data = <<>>]_vars

\* C27: in every reachable state an order's orderStatus is cancelled if and
\* only if its cancellation.isCancelled is true.
C27_CancelledIffIsCancelled ==
    \A i \in DOMAIN orders :
        orders[i].orderStatus = "cancelled" <=> orders[i].cancellation.isCancelled

\* C28: when cancelOrder interleaves with updateOrderStatus or updateOrder
\* on the same order between their read and their write, the order never
\* ends (no request in flight) with isCancelled true and an orderStatus
\* other than cancelled, and updateOrder writes nothing to an order that is
\* cancelled when it writes.
C28_InterleavedWritersKeepCancelled ==
    [][/\ (\A p \in Procs : pc'[p] = "idle")
            => \A i \in DOMAIN orders' :
                  orders'[i].cancellation.isCancelled
                  => orders'[i].orderStatus = "cancelled"
       /\ \A p \in Procs :
            (pc[p] = "updateWrite" /\ pc'[p] = "idle"
                /\ orders[loc[p].id].cancellation.isCancelled)
            => orders' = orders]_vars

\* C29: in every reachable state at most one stored banner has isActive
\* true.
C29_AtMostOneActiveBanner ==
    Cardinality({i \in DOMAIN banners : banners[i].isActive = TRUE}) <= 1

\* C26: a handler that answers with an error (status 400 or more) leaves the
\* stored orders, the stored banners and the custom claims as they were.
C26_ErrorLeavesStateUnchanged ==
    [][resp'.code >= 400
          => /\ orders' = orders
             /\ banners' = banners
             /\ accounts'.claims = accounts.claims]_vars

\* C25: whenever a route handler calls getDB, the db handle is set (getDB
\* does not throw).
C25_HandleSetWhenServed ==
    [][resp'.op = "getDB" /\ (\E p \in Procs : pc[p] = "handler" /\ pc'[p] = "idle")
          => conn.db]_vars

\* C30: at most one MongoClient is ever constructed and initializeDatabases
\* runs at most once.
C30_ConnectionSingleton ==
    conn.clients <= 1 /\ conn.inits <= 1

\* a fraction with its denominator made positive
Fraction(num, den) ==
    IF den < 0 THEN [num |-> 0 - num, den |-> 0 - den] ELSE [num |-> num, den |-> den]

\* C21: the growth the dashboard answers with is "+0.0%" when the paid
\* revenue of the month before last is zero, and otherwise
\* (last - prev) / prev * 100 to one decimal with a leading sign.
C21_GrowthOfBaseline ==
    [][resp'.op = "getDashboardStats" /\ date' = date
          => LET a == AbsMonth(year, date.month)
                 last == SumGrandTotal(orders, PaidOrders(orders) \cap CreatedIn(orders, a - 1))
                 prev == SumGrandTotal(orders, PaidOrders(orders) \cap CreatedIn(orders, a - 2))
                 rate == Fraction((last - prev) * 100, prev)
                 growth == resp'.data[1].stats.growth
             IN  IF prev = 0
                 THEN growth = [prefix |-> "+", fixed |-> [neg |-> FALSE, tenths |-> 0]]
                 ELSE /\ growth.fixed = ToFixed1(rate)
                      /\ growth.prefix = "+" <=> rate.num >= 0
                      /\ growth.prefix = "" <=> rate.num < 0]_vars

\* the keywords of the three buckets, as the claim words them
HasUiKeyword(name) ==
    LET n == toLowerCase(Chars(name))
    IN  \/ includes(n, <<"u", "i">>) \/ includes(n, <<"u", "x">>)
        \/ includes(n, <<"d", "e", "s", "i", "g", "n">>)

HasAppKeyword(name) ==
    LET n == toLowerCase(Chars(name))
    IN  includes(n, <<"a", "p", "p">>) \/ includes(n, <<"m", "o", "b", "i", "l", "e">>)

Percentages(d) == [k \in 1 .. 3 |-> d[k].percentage]

\* C22: the three percentages are 35/40/25 when no quantity is classified;
\* otherwise each is its bucket's rounded share of the quantity of the paid
\* line items (UI/UX keywords first, then App Dev, the rest Web Dev) and
\* they sum to 100 within 1.
C22_DistributionSums ==
    [][resp'.op = "getDashboardStats" /\ date' = date
          => LET items == PaidItems(orders)
                 nameOf(ik) == orders[ik[1]].items[ik[2]].name
                 ui == SumQuantity(orders, {ik \in items : HasUiKeyword(nameOf(ik))})
                 app == SumQuantity(orders, {ik \in items :
                            ~ HasUiKeyword(nameOf(ik)) /\ HasAppKeyword(nameOf(ik))})
                 web == SumQuantity(orders, {ik \in items :
                            ~ HasUiKeyword(nameOf(ik)) /\ ~ HasAppKeyword(nameOf(ik))})
                 total == SumQuantity(orders, items)
                 pct == Percentages(resp'.data[1].productDistribution)
             IN  /\ ui + app + web = total
                 /\ IF total = 0
                    THEN pct = <<35, 40, 25>>
                    ELSE /\ pct = <<MathRound(ui * 100, total), MathRound(web * 100, total),
                                     MathRound(app * 100, total)>>
                         /\ pct[1] + pct[2] + pct[3] \in 99 .. 101]_vars

\* the dashboard has answered for a store with a paid item named with both
\* a UI/UX and an App Dev keyword, with percentages that sum to 101
C22_Witness ==
    /\ resp.op = "getDashboardStats"
    /\ \E ik \in PaidItems(orders) :
            HasUiKeyword(orders[ik[1]].items[ik[2]].name)
                /\ HasAppKeyword(orders[ik[1]].items[ik[2]].name)
    /\ LET pct == Percentages(resp.data[1].productDistribution)
       IN  pct[1] + pct[2] + pct[3] = 101

\* C23: both six-month trends list the six calendar months that end with
\* the current one, oldest first, and the bucket of each month holds the
\* orders created in that month (their count, and the paid revenue).
C23_SixConsecutiveMonths ==
    [][resp'.op = "getDashboardStats" /\ date' = date
          => LET a == AbsMonth(year, date.month)
                 rev == resp'.data[1].revenueOverview
                 ord == resp'.data[1].ordersOverview
             IN  \A k \in 1 .. 6 :
                    /\ rev.months[k] = monthNames[MonthOf(a - 6 + k)]
                    /\ ord.months[k] = monthNames[MonthOf(a - 6 + k)]
                    /\ ord.orders[k] = Cardinality(CreatedIn(orders, a - 6 + k))
                    /\ rev.values[k] =
                          SumGrandTotal(orders, PaidOrders(orders)
                                                   \cap CreatedIn(orders, a - 6 + k))]_vars

\* C24: the total revenue, the order count and the paid-order count of a
\* dashboard response are those of one single store among the stores the
\* computation has read; in particular the paid-order count does not exceed
\* the order count.
C24_PointInTimeSnapshot ==
    [][stats.pc = "rest" /\ stats'.pc = "idle"
          => LET r == resp'.data[1]
             IN  /\ r.paidOrders.count <= r.stats.totalOrders
                 /\ \E s \in stats.seen \cup {orders} :
                        /\ r.stats.totalOrders = Cardinality(DOMAIN s)
                        /\ r.paidOrders.count = Cardinality(PaidOrders(s))
                        /\ r.stats.totalRevenue =
                              MathRound(SumGrandTotal(s, PaidOrders(s)), 10)]_vars

====
